---- MODULE Spec2Model ----
(***************************************************************************)
(* Gambit::Array<T> (libgambit/array.h): a bounds-checked array indexed by *)
(* an arbitrary inclusive range [mindex, maxdex], with a hand-managed      *)
(* buffer reached through an offset pointer (data = new T[len] - mindex),  *)
(* and ArrayPtrConstIterator<T>, a forward cursor over an Array<T *>.      *)
(*                                                                         *)
(* The heap is modelled explicitly: buffers are allocated and released by  *)
(* the operations exactly where the code calls new[] and delete[], and a   *)
(* pointer is a (buffer, offset) pair so that data[i] and data + mindex    *)
(* are computed as the code computes them.                                 *)
(***************************************************************************)
EXTENDS Integers, Sequences, FiniteSets, TLC

VARIABLES alive, mindex, maxdex, data, heap, last, rt, it

vars == <<alive, mindex, maxdex, data, heap, last, rt, it>>

(***************************************************************************)
(* Bounds of the model.                                                    *)
(***************************************************************************)
MaxLen == 4          \* longest array Spec and SpecIter build
MaxOwnLen == 1       \* longest array SpecOwn builds
MaxOver == 2         \* how far an iterator may be advanced past Last()
IntBits == 4         \* width of the machine int in SpecConstruct

Arrays == {1, 2}                  \* the Array<T> objects
Solo == {1}                       \* the object the one-array specifications use
Los == {-1, 1}                    \* lowest indices given to Construct(lo, hi)
Bufs == 1..(Cardinality(Arrays) + 1)   \* addresses new[] can return

\* The values of T.  Array<T> only copies elements and compares them with
\* == and !=, so two distinguishable values exercise every path.
Vals == {0, 1}

IntMin == -(2 ^ (IntBits - 1))
IntMax == (2 ^ (IntBits - 1)) - 1
MachineInt == IntMin..IntMax

\* An element of new T[n] that has not been assigned yet.  Its value is
\* indeterminate: reading it is recorded as a fault.
Unwritten == -1

\* the contents a constructor's new T[n] may be found to hold
Indeterminate(n) == [1..n -> Vals]

(***************************************************************************)
(* Machine arithmetic of int.  Signed overflow is undefined behaviour: the *)
(* set is every value the expression may then produce.                     *)
(***************************************************************************)
IntResult(x) == IF x \in MachineInt THEN {x} ELSE MachineInt

(***************************************************************************)
(* The heap.  heap.bufs[b] is the buffer at address b; allocd and freed    *)
(* are the buffers the operation in progress allocated and released;       *)
(* faults collects every invalid memory operation ever performed.          *)
(***************************************************************************)
NullPtr == [buf |-> 0, off |-> 0]
DeadBuf == [live |-> FALSE, cells |-> <<>>]

Ptr(b, off) == [buf |-> b, off |-> off]

IsNull(p) == p.buf = 0

FreeBufs(m) == {b \in Bufs : ~m.bufs[b].live}

\* start of an operation: forget the previous operation's allocations
Begin(m) == [m EXCEPT !.allocd = {}, !.freed = {}]

Fault(m, f) == [m EXCEPT !.faults = @ \cup {f}]

\* new T[n] returning address b, holding cells
AllocWith(m, b, cells) ==
  [m EXCEPT !.bufs[b] = [live |-> TRUE, cells |-> cells],
            !.allocd = @ \cup {b}]

\* new T[n] returning address b, every element of which is assigned later
Alloc(m, b, n) == AllocWith(m, b, [k \in 1..n |-> Unwritten])

\* p[i] names an element of a live buffer
ValidAt(m, p, i) ==
  /\ ~IsNull(p)
  /\ m.bufs[p.buf].live
  /\ i + p.off >= 0
  /\ i + p.off < Len(m.bufs[p.buf].cells)

AccessFault(m, p, i) ==
  IF IsNull(p) THEN "null"
  ELSE IF ~m.bufs[p.buf].live THEN "use-after-free"
  ELSE "out-of-bounds"

\* the value read by p[i]
Load(m, p, i) ==
  IF ValidAt(m, p, i) THEN m.bufs[p.buf].cells[i + p.off + 1] ELSE Unwritten

\* the heap after the read p[i]
Touch(m, p, i) ==
  IF ~ValidAt(m, p, i) THEN Fault(m, AccessFault(m, p, i))
  ELSE IF Load(m, p, i) = Unwritten THEN Fault(m, "uninitialized-read")
  ELSE m

\* p[i] = v
Store(m, p, i, v) ==
  IF ValidAt(m, p, i)
  THEN [m EXCEPT !.bufs[p.buf].cells[i + p.off + 1] = v]
  ELSE Fault(m, AccessFault(m, p, i))

\* delete [] (p + k)
Free(m, p, k) ==
  IF IsNull(p) THEN Fault(m, "bad-free")
  ELSE IF ~m.bufs[p.buf].live THEN Fault(m, "double-free")
  ELSE IF p.off + k # 0 THEN Fault(m, "bad-free")
  ELSE [m EXCEPT !.bufs[p.buf] = DeadBuf, !.freed = @ \cup {p.buf}]

\* for (i = from; i <= to; i++) dst[i] = src[i + d];
RECURSIVE CopyLoop(_, _, _, _, _, _)
CopyLoop(m, dst, src, i, to, d) ==
  IF i > to THEN m
  ELSE CopyLoop(Store(Touch(m, src, i + d), dst, i, Load(m, src, i + d)),
                dst, src, i + 1, to, d)

(***************************************************************************)
(* State.  alive[a]: object a is constructed and not destroyed; mindex,    *)
(* maxdex, data: its members.  last records the operation just performed,  *)
(* its arguments, its outcome and the state it started from; rt records    *)
(* the array as it was before an Append whose result was then removed; it  *)
(* is the iterator.                                                        *)
(***************************************************************************)
Snapshot ==
  [alive |-> alive, mindex |-> mindex, maxdex |-> maxdex, data |-> data,
   bufs |-> heap.bufs]

\* the members of an object that is not constructed (an empty shape)
DeadShape == [mn |-> 0, mx |-> -1]

NoSnapshot ==
  [alive |-> [a \in Arrays |-> FALSE],
   mindex |-> [a \in Arrays |-> DeadShape.mn],
   maxdex |-> [a \in Arrays |-> DeadShape.mx],
   data |-> [a \in Arrays |-> NullPtr],
   bufs |-> [b \in Bufs |-> DeadBuf]]

NoRt ==
  [on |-> FALSE, a |-> 0, v |-> 0, idx |-> 0, got |-> 0, orig |-> NoSnapshot]

NoIt ==
  [live |-> FALSE, arr |-> 0, idx |-> 0, adv |-> 0, seen |-> <<>>,
   skip |-> FALSE]

Rec(op, a, b, n, v, status, ret) ==
  [op |-> op, a |-> a, b |-> b, n |-> n, v |-> v, status |-> status,
   ret |-> ret, pre |-> Snapshot]

Init ==
  /\ alive = [a \in Arrays |-> FALSE]
  /\ mindex = [a \in Arrays |-> DeadShape.mn]
  /\ maxdex = [a \in Arrays |-> DeadShape.mx]
  /\ data = [a \in Arrays |-> NullPtr]
  /\ heap = [bufs |-> [b \in Bufs |-> DeadBuf], allocd |-> {}, freed |-> {},
             faults |-> {}]
  /\ last = [op |-> "none", a |-> 0, b |-> 0, n |-> 0, v |-> 0,
             status |-> "ok", ret |-> 0,
             pre |-> NoSnapshot]
  /\ rt = NoRt
  /\ it = NoIt

\* The address new[] returns: the lowest free one (addresses are
\* interchangeable; allocd and freed record what an operation did to the
\* heap).  {0} when the operation allocates nothing.
NewChoices(m, needed) ==
  IF needed
  THEN {b \in FreeBufs(m) : \A c \in FreeBufs(m) : b <= c}
  ELSE {0}

(***************************************************************************)
(* Lifecycle                                                               *)
(***************************************************************************)
\* Array(unsigned int len): data((len) ? new T[len] - 1 : 0)
ConstructLen(a, len) ==
  /\ ~alive[a]
  /\ \E b \in NewChoices(heap, len # 0) : \E cells \in Indeterminate(len) :
       /\ heap' = IF len # 0 THEN AllocWith(Begin(heap), b, cells)
                  ELSE Begin(heap)
       /\ data' = [data EXCEPT ![a] = IF len # 0 THEN Ptr(b, -1) ELSE NullPtr]
  /\ alive' = [alive EXCEPT ![a] = TRUE]
  /\ mindex' = [mindex EXCEPT ![a] = 1]
  /\ maxdex' = [maxdex EXCEPT ![a] = len]
  /\ last' = Rec("ConstructLen", a, 0, len, 0, "ok", 0)
  /\ rt' = NoRt
  /\ UNCHANGED it

\* if (maxdex + 1 < mindex) throw RangeException();   s is maxdex + 1
RangeThrows(s, lo) == s < lo

\* (maxdex >= mindex) ? new T[...] - mindex : 0
HasElements(mn, mx) == mx >= mn

\* Array(int lo, int hi).  An exception leaves no object behind.
Construct(a, lo, hi) ==
  /\ ~alive[a]
  /\ rt' = NoRt
  /\ UNCHANGED it
  /\ \E s \in IntResult(hi + 1) :
       IF RangeThrows(s, lo)
       THEN /\ last' = Rec("Construct", a, 0, lo, hi, "RangeError", 0)
            /\ heap' = Begin(heap)
            /\ UNCHANGED <<alive, mindex, maxdex, data>>
       ELSE \E d \in IntResult(hi - lo) : \E n \in IntResult(d + 1) :
              IF HasElements(lo, hi) /\ n < 0
              THEN \* new T[n] with a negative n throws std::bad_array_new_length
                   /\ last' = Rec("Construct", a, 0, lo, hi, "BadAlloc", 0)
                   /\ heap' = Begin(heap)
                   /\ UNCHANGED <<alive, mindex, maxdex, data>>
              ELSE /\ \E b \in NewChoices(heap, HasElements(lo, hi)) :
                      \E cells \in Indeterminate(IF HasElements(lo, hi)
                                                 THEN n ELSE 0) :
                        /\ heap' = IF HasElements(lo, hi)
                                   THEN AllocWith(Begin(heap), b, cells)
                                   ELSE Begin(heap)
                        /\ data' = [data EXCEPT ![a] =
                                      IF HasElements(lo, hi) THEN Ptr(b, -lo)
                                      ELSE NullPtr]
                   /\ alive' = [alive EXCEPT ![a] = TRUE]
                   /\ mindex' = [mindex EXCEPT ![a] = lo]
                   /\ maxdex' = [maxdex EXCEPT ![a] = hi]
                   /\ last' = Rec("Construct", a, 0, lo, hi, "ok", 0)

\* mutant: the copy takes the source's pointer instead of a buffer of its own
CopyData_Shallow(m, b, src, mn, mx) == [ptr |-> src, mem |-> m]

\* the buffer of a copy: a fresh one, filled element by element
CopyData(m, b, src, mn, mx) ==
  IF HasElements(mn, mx)
  THEN [ptr |-> Ptr(b, -mn),
        mem |-> CopyLoop(Alloc(m, b, mx - mn + 1), Ptr(b, -mn), src, mn, mx, 0)]
  ELSE [ptr |-> NullPtr, mem |-> m]

\* Array(const Array<T> &a): this is a, the argument is c
CopyConstruct(a, c) ==
  /\ ~alive[a]
  /\ alive[c]
  /\ \E b \in NewChoices(heap, HasElements(mindex[c], maxdex[c])) :
       LET r == CopyData(Begin(heap), b, data[c], mindex[c], maxdex[c])
       IN  /\ heap' = r.mem
           /\ data' = [data EXCEPT ![a] = r.ptr]
  /\ alive' = [alive EXCEPT ![a] = TRUE]
  /\ mindex' = [mindex EXCEPT ![a] = mindex[c]]
  /\ maxdex' = [maxdex EXCEPT ![a] = maxdex[c]]
  /\ last' = Rec("CopyConstruct", a, c, 0, 0, "ok", 0)
  /\ rt' = NoRt
  /\ UNCHANGED it

\* ~Array(): if (maxdex >= mindex) delete [] (data + mindex);
DestroyMem(m, p, mn, mx) == IF mx >= mn THEN Free(m, p, mn) ELSE m

Destroy(a) ==
  /\ alive[a]
  /\ heap' = DestroyMem(Begin(heap), data[a], mindex[a], maxdex[a])
  /\ alive' = [alive EXCEPT ![a] = FALSE]
  /\ mindex' = [mindex EXCEPT ![a] = DeadShape.mn]
  /\ maxdex' = [maxdex EXCEPT ![a] = DeadShape.mx]
  /\ data' = [data EXCEPT ![a] = NullPtr]
  /\ last' = Rec("Destroy", a, 0, 0, 0, "ok", 0)
  /\ rt' = NoRt
  /\ UNCHANGED it

\* mutant: assignment always releases and reallocates
NeedsRealloc_Always(p, mn, mx, cmn, cmx) == TRUE

\* if (!data || (data && (mindex != a.mindex || maxdex != a.maxdex)))
NeedsRealloc(p, mn, mx, cmn, cmx) ==
  IsNull(p) \/ (~IsNull(p) /\ (mn # cmn \/ mx # cmx))

\* operator=(const Array<T> &a): this is a, the argument is c
Assign(a, c) ==
  /\ alive[a]
  /\ alive[c]
  /\ last' = Rec("Assign", a, c, 0, 0, "ok", 0)
  /\ rt' = NoRt
  /\ UNCHANGED <<alive, it>>
  /\ IF a = c
     THEN /\ heap' = Begin(heap)
          /\ UNCHANGED <<mindex, maxdex, data>>
     ELSE IF NeedsRealloc(data[a], mindex[a], maxdex[a], mindex[c], maxdex[c])
     THEN LET m1 == IF ~IsNull(data[a])
                    THEN Free(Begin(heap), data[a], mindex[a])
                    ELSE Begin(heap)
          IN  \E b \in NewChoices(m1, HasElements(mindex[c], maxdex[c])) :
                LET r == CopyData(m1, b, data[c], mindex[c], maxdex[c])
                IN  /\ heap' = r.mem
                    /\ data' = [data EXCEPT ![a] = r.ptr]
                    /\ mindex' = [mindex EXCEPT ![a] = mindex[c]]
                    /\ maxdex' = [maxdex EXCEPT ![a] = maxdex[c]]
     ELSE /\ heap' = CopyLoop(Begin(heap), data[a], data[c],
                              mindex[a], maxdex[a], 0)
          /\ UNCHANGED <<mindex, maxdex, data>>

(***************************************************************************)
(* General data access                                                     *)
(***************************************************************************)
\* int Length() const { return maxdex - mindex + 1; }
Length(a) ==
  /\ alive[a]
  /\ \E d \in IntResult(maxdex[a] - mindex[a]) : \E r \in IntResult(d + 1) :
       last' = Rec("Length", a, 0, 0, 0, "ok", r)
  /\ heap' = Begin(heap)
  /\ rt' = NoRt
  /\ UNCHANGED <<alive, mindex, maxdex, data, it>>

\* mutant: the upper check is off by one
IndexThrows_Lax(index, mn, mx) == index < mn \/ index > mx + 1

\* if (index < mindex || index > maxdex) throw IndexException();
IndexThrows(index, mn, mx) == index < mn \/ index > mx

\* const T &operator[](int index) const, and the value it refers to
Get(a, index) ==
  /\ alive[a]
  /\ IF IndexThrows(index, mindex[a], maxdex[a])
     THEN /\ last' = Rec("Get", a, 0, index, 0, "IndexError", 0)
          /\ heap' = Begin(heap)
     ELSE /\ last' = Rec("Get", a, 0, index, 0, "ok",
                         Load(heap, data[a], index))
          /\ heap' = Touch(Begin(heap), data[a], index)
  /\ rt' = NoRt
  /\ UNCHANGED <<alive, mindex, maxdex, data, it>>

\* T &operator[](int index), and an assignment through the reference
Set(a, index, v) ==
  /\ alive[a]
  /\ IF IndexThrows(index, mindex[a], maxdex[a])
     THEN /\ last' = Rec("Set", a, 0, index, v, "IndexError", 0)
          /\ heap' = Begin(heap)
     ELSE /\ last' = Rec("Set", a, 0, index, v, "ok", v)
          /\ heap' = Store(Begin(heap), data[a], index, v)
  /\ rt' = NoRt
  /\ UNCHANGED <<alive, mindex, maxdex, data, it>>

\* for (i = mindex; i <= maxdex && data[i] != t; i++);  the final i
RECURSIVE FindLoop(_, _, _, _, _)
FindLoop(m, p, i, mx, t) ==
  IF i <= mx /\ Load(m, p, i) # t THEN FindLoop(m, p, i + 1, mx, t) ELSE i

\* mutant: "not found" is 0, as if every array started at 1
FindResult_Zero(i, mn, mx) == IF i <= mx THEN i ELSE 0

\* return (i <= maxdex) ? i : (mindex - 1);
FindResult(i, mn, mx) == IF i <= mx THEN i ELSE mn - 1

\* the heap after the reads of the loop, which end at index i
RECURSIVE TouchRange(_, _, _, _)
TouchRange(m, p, i, to) ==
  IF i > to THEN m ELSE TouchRange(Touch(m, p, i), p, i + 1, to)

FindValue(m, p, mn, mx, t) == FindResult(FindLoop(m, p, mn, mx, t), mn, mx)

FindMem(m, p, mn, mx, t) ==
  LET i == FindLoop(m, p, mn, mx, t)
  IN  TouchRange(m, p, mn, IF i <= mx THEN i ELSE mx)

\* int Find(const T &t) const
Find(a, t) ==
  /\ alive[a]
  /\ last' = Rec("Find", a, 0, 0, t, "ok",
                 FindValue(heap, data[a], mindex[a], maxdex[a], t))
  /\ heap' = FindMem(Begin(heap), data[a], mindex[a], maxdex[a], t)
  /\ rt' = NoRt
  /\ UNCHANGED <<alive, mindex, maxdex, data, it>>

\* bool Contains(const T &t) const { return Find(t) != mindex-1; }
ContainsValue(m, p, mn, mx, t) == FindValue(m, p, mn, mx, t) # mn - 1

Contains(a, t) ==
  /\ alive[a]
  /\ last' = Rec("Contains", a, 0, 0, t, "ok",
                 ContainsValue(heap, data[a], mindex[a], maxdex[a], t))
  /\ heap' = FindMem(Begin(heap), data[a], mindex[a], maxdex[a], t)
  /\ rt' = NoRt
  /\ UNCHANGED <<alive, mindex, maxdex, data, it>>

\* for (i = mindex; i <= maxdex; i++) if ((*this)[i] != a[i]) return false;
\* The index checks of operator[] pass: i is inside the shape both share
RECURSIVE EqLoop(_, _, _, _, _)
EqLoop(m, p, q, i, mx) ==
  IF i > mx THEN TRUE
  ELSE IF Load(m, p, i) # Load(m, q, i) THEN FALSE
  ELSE EqLoop(m, p, q, i + 1, mx)

\* bool operator==(const Array<T> &a) const, on two shapes and buffers
EqValue(m, p, mn, mx, q, cmn, cmx) ==
  IF mn # cmn \/ mx # cmx THEN FALSE ELSE EqLoop(m, p, q, mn, mx)

Equals(a, c) ==
  /\ alive[a]
  /\ alive[c]
  /\ last' = Rec("Equals", a, c, 0, 0, "ok",
                 EqValue(heap, data[a], mindex[a], maxdex[a],
                         data[c], mindex[c], maxdex[c]))
  /\ heap' = Begin(heap)
  /\ rt' = NoRt
  /\ UNCHANGED <<alive, mindex, maxdex, data, it>>

(***************************************************************************)
(* Modifying the contents of the array                                     *)
(***************************************************************************)
\* if (this->mindex > n || n > this->maxdex + 1) throw IndexException();
InsertAtThrows(n, mn, mx) == mn > n \/ n > mx + 1

\* The body of InsertAt after the check, on a buffer p of shape [mn, mx]:
\* new T[++maxdex - mindex + 1] - mindex at address b, the two copy loops
\* around new_data[i++] = t, then if (data) delete [] (data + mindex).
InsertMem(m, b, p, mn, mx, t, n) ==
  LET nd == Ptr(b, -mn)
      m1 == Alloc(m, b, (mx + 1) - mn + 1)
      m2 == CopyLoop(m1, nd, p, mn, n - 1, 0)
      m3 == Store(m2, nd, n, t)
      m4 == CopyLoop(m3, nd, p, n + 1, mx + 1, -1)
  IN  [ptr |-> nd, mem |-> IF ~IsNull(p) THEN Free(m4, p, mn) ELSE m4]

\* int InsertAt(const T &t, int n), called by op with the argument arg
InsertAt(a, t, n, op, arg) ==
  /\ alive[a]
  /\ UNCHANGED <<alive, mindex, it>>
  /\ IF InsertAtThrows(n, mindex[a], maxdex[a])
     THEN /\ last' = Rec(op, a, 0, arg, t, "IndexError", 0)
          /\ heap' = Begin(heap)
          /\ UNCHANGED <<maxdex, data>>
     ELSE /\ \E b \in NewChoices(heap, TRUE) :
               LET r == InsertMem(Begin(heap), b, data[a], mindex[a],
                                  maxdex[a], t, n)
               IN  /\ heap' = r.mem
                   /\ data' = [data EXCEPT ![a] = r.ptr]
          /\ maxdex' = [maxdex EXCEPT ![a] = maxdex[a] + 1]
          /\ last' = Rec(op, a, 0, arg, t, "ok", n)

\* mutant: Append inserts at maxdex, before the last element
AppendElem_AtLast(a, t) ==
  /\ InsertAt(a, t, maxdex[a], "Append", 0)
  /\ rt' = NoRt

\* int Append(const T &t) { return InsertAt(t, this->maxdex + 1); }
AppendElem(a, t) ==
  /\ InsertAt(a, t, maxdex[a] + 1, "Append", 0)
  /\ rt' = NoRt

\* mutant: a position above Last() snaps to Last(), not to Last() + 1
InsertPos_SnapToLast(n, mn, mx) ==
  IF n < mn THEN mn ELSE IF n > mx THEN mx ELSE n

\* (n < mindex) ? mindex : ((n > maxdex + 1) ? maxdex + 1 : n)
InsertPos(n, mn, mx) == IF n < mn THEN mn ELSE IF n > mx + 1 THEN mx + 1 ELSE n

\* int Insert(const T &t, int n)
Insert(a, t, n) ==
  /\ InsertAt(a, t, InsertPos(n, mindex[a], maxdex[a]), "Insert", n)
  /\ rt' = NoRt

\* if (n < this->mindex || n > this->maxdex) throw IndexException();
RemoveThrows(n, mn, mx) == n < mn \/ n > mx

\* mutant: a buffer is allocated even when no element is left
RemoveAllocates_Always(mn, mx) == mx >= mn - 1

\* (--this->maxdex >= this->mindex) ? new T[...] - this->mindex : 0
\* mx is maxdex after the decrement
RemoveAllocates(mn, mx) == mx >= mn

\* mutant: the second loop copies data[i], not data[i + 1]
RemoveMem_NoShift(m, b, p, mn, mx, n) ==
  LET nd == IF mx - 1 >= mn THEN Ptr(b, -mn) ELSE NullPtr
      m1 == IF mx - 1 >= mn THEN Alloc(m, b, (mx - 1) - mn + 1) ELSE m
      m2 == CopyLoop(m1, nd, p, mn, n - 1, 0)
      m3 == CopyLoop(m2, nd, p, n, mx - 1, 0)
  IN  [ptr |-> nd, mem |-> Free(m3, p, mn)]

\* The body of Remove after T ret(data[n]), on a buffer p of shape [mn, mx]:
\* the new buffer at address b (if any), the two copy loops, then
\* delete [] (data + mindex).
RemoveMem(m, b, p, mn, mx, n) ==
  LET nd == IF RemoveAllocates(mn, mx - 1) THEN Ptr(b, -mn) ELSE NullPtr
      m1 == IF RemoveAllocates(mn, mx - 1)
            THEN Alloc(m, b, (mx - 1) - mn + 1) ELSE m
      m2 == CopyLoop(m1, nd, p, mn, n - 1, 0)
      m3 == CopyLoop(m2, nd, p, n, mx - 1, 1)
  IN  [ptr |-> nd, mem |-> Free(m3, p, mn)]

\* T Remove(int n)
Remove(a, n) ==
  /\ alive[a]
  /\ UNCHANGED <<alive, mindex, it>>
  /\ IF RemoveThrows(n, mindex[a], maxdex[a])
     THEN /\ last' = Rec("Remove", a, 0, n, 0, "IndexError", 0)
          /\ heap' = Begin(heap)
          /\ rt' = NoRt
          /\ UNCHANGED <<maxdex, data>>
     ELSE /\ \E b \in NewChoices(heap,
                        RemoveAllocates(mindex[a], maxdex[a] - 1)) :
               LET r == RemoveMem(Touch(Begin(heap), data[a], n), b, data[a],
                                  mindex[a], maxdex[a], n)
               IN  /\ heap' = r.mem
                   /\ data' = [data EXCEPT ![a] = r.ptr]
          /\ maxdex' = [maxdex EXCEPT ![a] = maxdex[a] - 1]
          /\ last' = Rec("Remove", a, 0, n, 0, "ok", Load(heap, data[a], n))
          /\ rt' = IF last.op = "Append" /\ last.status = "ok" /\ last.a = a
                      /\ last.ret = n
                   THEN [on |-> TRUE, a |-> a, v |-> last.v, idx |-> n,
                         got |-> Load(heap, data[a], n), orig |-> last.pre]
                   ELSE NoRt

(***************************************************************************)
(* ArrayPtrConstIterator<T>: m_array is it.arr, m_index is it.idx.  adv    *)
(* counts the advances made, seen lists the indices dereferenced and skip  *)
(* tells that the cursor was advanced past an element without reading it.  *)
(***************************************************************************)
\* the object a T * element points to
Pointee(p) == [obj |-> p]

\* ArrayPtrConstIterator(const Array<T *> &p_array)
IterConstruct(a) ==
  /\ alive[a]
  /\ it' = [live |-> TRUE, arr |-> a, idx |-> mindex[a], adv |-> 0,
            seen |-> <<>>, skip |-> FALSE]
  /\ last' = Rec("IterConstruct", a, 0, 0, 0, "ok", 0)
  /\ heap' = Begin(heap)
  /\ rt' = NoRt
  /\ UNCHANGED <<alive, mindex, maxdex, data>>

\* m_index++
Advance(i) == i + 1

\* the cursor is on an element that has not been dereferenced
Unvisited ==
  /\ ~IndexThrows(it.idx, mindex[it.arr], maxdex[it.arr])
  /\ (it.seen = <<>> \/ it.seen[Len(it.seen)] # it.idx)

\* void operator++(void) { m_index++; }
IterPre ==
  /\ it.live
  /\ it.idx < maxdex[it.arr] + MaxOver
  /\ it' = [it EXCEPT !.idx = Advance(it.idx), !.adv = @ + 1,
                      !.skip = @ \/ Unvisited]
  /\ last' = Rec("IterPre", it.arr, 0, it.idx, 0, "ok", 0)
  /\ heap' = Begin(heap)
  /\ rt' = NoRt
  /\ UNCHANGED <<alive, mindex, maxdex, data>>

\* void operator++(int) { m_index++; }
IterPost ==
  /\ it.live
  /\ it.idx < maxdex[it.arr] + MaxOver
  /\ it' = [it EXCEPT !.idx = Advance(it.idx), !.adv = @ + 1,
                      !.skip = @ \/ Unvisited]
  /\ last' = Rec("IterPost", it.arr, 0, it.idx, 0, "ok", 0)
  /\ heap' = Begin(heap)
  /\ rt' = NoRt
  /\ UNCHANGED <<alive, mindex, maxdex, data>>

\* mutant: the end is reported one element early
AtEndValue_Early(idx, mx) == idx >= mx

\* return m_index > m_array.Last();
AtEndValue(idx, mx) == idx > mx

\* bool AtEnd(void) const
IterAtEnd ==
  /\ it.live
  /\ last' = Rec("IterAtEnd", it.arr, 0, it.idx, 0, "ok",
                 AtEndValue(it.idx, maxdex[it.arr]))
  /\ heap' = Begin(heap)
  /\ rt' = NoRt
  /\ UNCHANGED <<alive, mindex, maxdex, data, it>>

\* m_array[m_index] as the three access operators use it; star tells
\* operator* (which returns the pointee) from operator-> and operator T *
IterAccess(op, star) ==
  /\ it.live
  /\ rt' = NoRt
  /\ UNCHANGED <<alive, mindex, maxdex, data>>
  /\ IF IndexThrows(it.idx, mindex[it.arr], maxdex[it.arr])
     THEN /\ last' = Rec(op, it.arr, 0, it.idx, 0, "IndexError", 0)
          /\ heap' = Begin(heap)
          /\ UNCHANGED it
     ELSE /\ last' = Rec(op, it.arr, 0, it.idx, 0, "ok",
                         IF star THEN Pointee(Load(heap, data[it.arr], it.idx))
                         ELSE Load(heap, data[it.arr], it.idx))
          /\ heap' = Touch(Begin(heap), data[it.arr], it.idx)
          /\ it' = [it EXCEPT !.seen =
                      IF @ # <<>> /\ @[Len(@)] = it.idx THEN @
                      ELSE Append(@, it.idx)]

\* T &operator*(void) const { return *(m_array[m_index]); }
IterDeref == IterAccess("IterDeref", TRUE)

\* const T *operator->(void) const { return m_array[m_index]; }
IterArrow == IterAccess("IterArrow", FALSE)

\* operator T *(void) const { return m_array[m_index]; }
IterCast == IterAccess("IterCast", FALSE)

(***************************************************************************)
(* Spec: one array under every operation of Array<T> that involves a       *)
(* single object.                                                          *)
(***************************************************************************)
CanGrow(a, max) == alive[a] /\ maxdex[a] - mindex[a] + 1 < max

Next ==
  \/ \E a \in Solo, len \in 0..MaxLen : ConstructLen(a, len)
  \/ \E a \in Solo, lo \in Los : \E hi \in (lo - 3)..(lo + MaxLen - 1) :
       Construct(a, lo, hi)
  \/ \E a \in Solo : Destroy(a)
  \/ \E a \in Solo : Length(a)
  \/ \E a \in Solo : \E i \in (mindex[a] - 2)..(maxdex[a] + 2) : Get(a, i)
  \/ \E a \in Solo, v \in Vals :
       \E i \in (mindex[a] - 2)..(maxdex[a] + 2) : Set(a, i, v)
  \/ \E a \in Solo, v \in Vals : Find(a, v)
  \/ \E a \in Solo, v \in Vals : Contains(a, v)
  \/ \E a \in Solo, v \in Vals : CanGrow(a, MaxLen) /\ AppendElem(a, v)
  \/ \E a \in Solo, v \in Vals :
       \E n \in (mindex[a] - 2)..(maxdex[a] + 3) :
         CanGrow(a, MaxLen) /\ Insert(a, v, n)
  \/ \E a \in Solo : \E n \in (mindex[a] - 2)..(maxdex[a] + 2) : Remove(a, n)

Spec == Init /\ [][Next]_vars

(***************************************************************************)
(* SpecOwn: two arrays under construction, copy, assignment, mutation and  *)
(* destruction.                                                            *)
(***************************************************************************)
NextOwn ==
  \/ \E a \in Arrays, len \in 0..MaxOwnLen : ConstructLen(a, len)
  \/ \E a \in Arrays, lo \in Los : \E hi \in (lo - 2)..(lo + MaxOwnLen - 1) :
       Construct(a, lo, hi)
  \/ \E a \in Arrays, c \in Arrays : CopyConstruct(a, c)
  \/ \E a \in Arrays : Destroy(a)
  \/ \E a \in Arrays, c \in Arrays : Assign(a, c)
  \/ \E a \in Arrays, c \in Arrays : Equals(a, c)
  \/ \E a \in Arrays, v \in Vals :
       \E i \in (mindex[a] - 1)..(maxdex[a] + 1) : Set(a, i, v)
  \/ \E a \in Arrays, v \in Vals : CanGrow(a, MaxOwnLen) /\ AppendElem(a, v)
  \/ \E a \in Arrays, v \in Vals :
       \E n \in (mindex[a] - 1)..(maxdex[a] + 2) :
         CanGrow(a, MaxOwnLen) /\ Insert(a, v, n)
  \/ \E a \in Arrays : \E n \in (mindex[a] - 1)..(maxdex[a] + 1) : Remove(a, n)

SpecOwn == Init /\ [][NextOwn]_vars

(***************************************************************************)
(* SpecIter: an iterator over an array that is not mutated.  The array is  *)
(* any array of at most MaxLen elements.                                   *)
(***************************************************************************)
InitIter ==
  /\ \E lo \in Los, len \in 0..MaxLen : \E cells \in [1..len -> Vals] :
       /\ alive = [a \in Arrays |-> a \in Solo]
       /\ mindex = [a \in Arrays |-> IF a \in Solo THEN lo ELSE DeadShape.mn]
       /\ maxdex = [a \in Arrays |->
                      IF a \in Solo THEN lo + len - 1 ELSE DeadShape.mx]
       /\ data = [a \in Arrays |->
                    IF a \in Solo /\ len > 0 THEN Ptr(1, -lo) ELSE NullPtr]
       /\ heap = [bufs |-> [b \in Bufs |->
                              IF b = 1 /\ len > 0
                              THEN [live |-> TRUE, cells |-> cells]
                              ELSE DeadBuf],
                  allocd |-> {}, freed |-> {}, faults |-> {}]
  /\ last = [op |-> "none", a |-> 0, b |-> 0, n |-> 0, v |-> 0,
             status |-> "ok", ret |-> 0, pre |-> NoSnapshot]
  /\ rt = NoRt
  /\ it = NoIt

NextIter ==
  \/ \E a \in Solo : IterConstruct(a)
  \/ IterPre
  \/ IterPost
  \/ IterAtEnd
  \/ IterDeref
  \/ IterArrow
  \/ IterCast

SpecIter == InitIter /\ [][NextIter]_vars

(***************************************************************************)
(* SpecConstruct: one Array(int lo, int hi) for every pair of machine ints  *)
(* whose length hi - lo + 1 an int can hold, and Length() of the array it  *)
(* built.                                                                  *)
(***************************************************************************)
NextConstruct ==
  \/ \E a \in Solo, lo \in MachineInt, hi \in MachineInt :
       last.op = "none" /\ hi - lo + 1 <= IntMax /\ Construct(a, lo, hi)
  \/ \E a \in Solo : Length(a)

SpecConstruct == Init /\ [][NextConstruct]_vars

(***************************************************************************)
(* Views used by the properties: the shape and the elements of array a now *)
(* and in a recorded earlier state s.                                      *)
(***************************************************************************)
First(a) == mindex[a]
Last(a) == maxdex[a]
Elem(a, i) == Load(heap, data[a], i)
Stored(a, i) == ValidAt(heap, data[a], i)

FirstIn(s, a) == s.mindex[a]
LastIn(s, a) == s.maxdex[a]
ElemIn(s, a, i) == Load(s, s.data[a], i)

\* array a has the shape and the elements it had in state s
SameArray(s, a) ==
  /\ First(a) = FirstIn(s, a)
  /\ Last(a) = LastIn(s, a)
  /\ \A i \in First(a)..Last(a) :
       Stored(a, i) /\ ValidAt(s, s.data[a], i) /\ Elem(a, i) = ElemIn(s, a, i)

\* nothing at all differs from state s: members, buffers and their contents
Untouched(s) ==
  /\ alive = s.alive
  /\ mindex = s.mindex
  /\ maxdex = s.maxdex
  /\ data = s.data
  /\ heap.bufs = s.bufs
  /\ heap.allocd = {}
  /\ heap.freed = {}

OutOfRange(s, a, n) == n < FirstIn(s, a) \/ n > LastIn(s, a)

(***************************************************************************)
(* C1.  Insert(v, n) resolves p = First() if n < First(), p = Last()+1 if  *)
(* n > Last()+1 and p = n otherwise; it returns p, never fails, leaves     *)
(* First() unchanged, increases Last() (and so Length()) by exactly 1,     *)
(* keeps every element below p at its index, puts v at p and moves every   *)
(* element that was at an index i >= p to i + 1.                           *)
(***************************************************************************)
C1_InsertContract ==
  last.op = "Insert" =>
    LET a == last.a
        f == FirstIn(last.pre, a)
        l == LastIn(last.pre, a)
        p == IF last.n < f THEN f ELSE IF last.n > l + 1 THEN l + 1 ELSE last.n
    IN  /\ last.status = "ok"
        /\ last.ret = p
        /\ First(a) = f
        /\ Last(a) = l + 1
        /\ \A i \in f..(l + 1) : Stored(a, i)
        /\ \A i \in f..(p - 1) : Elem(a, i) = ElemIn(last.pre, a, i)
        /\ Elem(a, p) = last.v
        /\ \A i \in p..l : Elem(a, i + 1) = ElemIn(last.pre, a, i)

\* Insert(1, 2) into the three elements [0, 0, 0] on [1, 3] gave
\* [0, 1, 0, 0] on [1, 4] and returned 2
C1_Witness ==
  /\ last.op = "Insert"
  /\ last.status = "ok"
  /\ FirstIn(last.pre, last.a) = 1
  /\ LastIn(last.pre, last.a) = 3
  /\ \A i \in 1..3 : ElemIn(last.pre, last.a, i) = 0
  /\ last.n = 2
  /\ last.v = 1
  /\ last.ret = 2
  /\ First(last.a) = 1
  /\ Last(last.a) = 4
  /\ <<Elem(last.a, 1), Elem(last.a, 2), Elem(last.a, 3), Elem(last.a, 4)>>
       = <<0, 1, 0, 0>>

(***************************************************************************)
(* C2.  Remove(n) with First() <= n <= Last() returns the element that was *)
(* at n, leaves First() unchanged, decreases Last() (and so Length()) by   *)
(* exactly 1, keeps every element below n at its index and moves every     *)
(* element that was at an index i > n to i - 1.                            *)
(***************************************************************************)
C2_RemoveContract ==
  (last.op = "Remove" /\ ~OutOfRange(last.pre, last.a, last.n)) =>
    LET a == last.a
        f == FirstIn(last.pre, a)
        l == LastIn(last.pre, a)
    IN  /\ last.status = "ok"
        /\ last.ret = ElemIn(last.pre, a, last.n)
        /\ First(a) = f
        /\ Last(a) = l - 1
        /\ \A i \in f..(l - 1) : Stored(a, i)
        /\ \A i \in f..(last.n - 1) : Elem(a, i) = ElemIn(last.pre, a, i)
        /\ \A i \in (last.n + 1)..l : Elem(a, i - 1) = ElemIn(last.pre, a, i)

\* an element was removed from the middle of [0, 1, 0, 1] on [-1, 2]
C2_Witness ==
  /\ last.op = "Remove"
  /\ last.status = "ok"
  /\ FirstIn(last.pre, last.a) = -1
  /\ LastIn(last.pre, last.a) = 2
  /\ last.n = 0
  /\ last.ret = 1
  /\ <<Elem(last.a, -1), Elem(last.a, 0), Elem(last.a, 1)>> = <<0, 0, 1>>

(***************************************************************************)
(* C3.  Get, GetMut and Remove with an index below First() or above Last() *)
(* fail with IndexError, on an empty array too, and fail only then: the    *)
(* index is never clamped.  The failed call changes nothing: shape,        *)
(* storage and elements are as before.  Insert accepts such a position.    *)
(***************************************************************************)
C3_IndexErrors ==
  /\ last.op \in {"Get", "Set", "Remove"} =>
       /\ last.status = "IndexError" <=> OutOfRange(last.pre, last.a, last.n)
       /\ last.status = "IndexError" => Untouched(last.pre)
       /\ (last.status = "ok" /\ last.op = "Get") =>
            last.ret = ElemIn(last.pre, last.a, last.n)
       /\ heap.faults = {}
  /\ (last.op = "Insert" /\ OutOfRange(last.pre, last.a, last.n)) =>
       last.status = "ok"

\* Remove(Last() + 1) failed on a non-empty array
C3_Witness ==
  /\ last.op = "Remove"
  /\ last.status = "IndexError"
  /\ LastIn(last.pre, last.a) >= FirstIn(last.pre, last.a)
  /\ last.n = LastIn(last.pre, last.a) + 1

(***************************************************************************)
(* C4.  Append(v) returns the new Last(), which is the previous Last()+1,  *)
(* with v stored there; Remove of that index then returns v and leaves the *)
(* array equal to what it was before the Append (same First(), same        *)
(* Last(), same elements), and an array that was empty holds no storage.   *)
(***************************************************************************)
C4_AppendRemoveRoundTrip ==
  /\ last.op = "Append" =>
       /\ last.status = "ok"
       /\ last.ret = Last(last.a)
       /\ last.ret = LastIn(last.pre, last.a) + 1
       /\ Stored(last.a, last.ret)
       /\ Elem(last.a, last.ret) = last.v
  /\ rt.on =>
       /\ last.op = "Remove"
       /\ last.status = "ok"
       /\ rt.got = rt.v
       /\ last.ret = rt.v
       /\ SameArray(rt.orig, rt.a)
       /\ LastIn(rt.orig, rt.a) < FirstIn(rt.orig, rt.a) =>
            /\ IsNull(data[rt.a])
            /\ \A b \in Bufs : ~heap.bufs[b].live

\* the round trip was made on a non-empty array starting at -1
C4_Witness ==
  /\ rt.on
  /\ FirstIn(rt.orig, rt.a) = -1
  /\ LastIn(rt.orig, rt.a) = 0
  /\ rt.v = 1

(***************************************************************************)
(* C7.  Find(v) returns the lowest index whose element equals v and        *)
(* First()-1 when there is none; Contains(v) is true exactly when some     *)
(* element equals v; neither changes the array.                            *)
(***************************************************************************)
Matches(a, v) == {i \in First(a)..Last(a) : Elem(a, i) = v}

C7_FindContains ==
  /\ last.op = "Find" =>
       /\ Untouched(last.pre)
       /\ heap.faults = {}
       /\ IF Matches(last.a, last.v) = {}
          THEN last.ret = First(last.a) - 1
          ELSE /\ last.ret \in Matches(last.a, last.v)
               /\ \A i \in Matches(last.a, last.v) : last.ret <= i
  /\ last.op = "Contains" =>
       /\ Untouched(last.pre)
       /\ last.ret = (Matches(last.a, last.v) # {})
       /\ last.ret =
            (FindValue(heap, data[last.a], First(last.a), Last(last.a), last.v)
               # First(last.a) - 1)

\* Find of a value that occurs twice, not at the first index
C7_Witness ==
  /\ last.op = "Find"
  /\ First(last.a) = -1
  /\ Matches(last.a, last.v) = {0, 2}
  /\ last.ret = 0

(***************************************************************************)
(* C5.  Assign(other) leaves the receiver equal to other and other         *)
(* unchanged.  If the receiver already had other's (First(), Last()), it   *)
(* keeps the very same buffer: nothing is released, nothing allocated.  If *)
(* the shapes differed, the old buffer is released and a fresh buffer of   *)
(* exactly other's length is allocated (none if other is empty).           *)
(* Self-assignment changes nothing.                                        *)
(***************************************************************************)
SameShapeBefore(s, a, c) ==
  FirstIn(s, a) = FirstIn(s, c) /\ LastIn(s, a) = LastIn(s, c)

C5_Assign ==
  last.op = "Assign" =>
    LET a == last.a
        c == last.b
        s == last.pre
        old == s.data[a]
    IN  /\ last.status = "ok"
        /\ heap.faults = {}
        /\ EqValue(heap, data[a], First(a), Last(a), data[c], First(c), Last(c))
        /\ \A i \in First(a)..Last(a) : Stored(a, i)
        /\ SameArray(s, c)
        /\ data[c] = s.data[c]
        /\ a = c => Untouched(s)
        /\ SameShapeBefore(s, a, c) =>
             /\ data[a] = old
             /\ heap.allocd = {}
             /\ heap.freed = {}
        /\ ~SameShapeBefore(s, a, c) =>
             /\ heap.freed = IF IsNull(old) THEN {} ELSE {old.buf}
             /\ IF Last(c) < First(c)
                THEN IsNull(data[a]) /\ heap.allocd = {}
                ELSE /\ ~IsNull(data[a])
                     /\ heap.allocd = {data[a].buf}
                     /\ Len(heap.bufs[data[a].buf].cells)
                          = Last(c) - First(c) + 1

\* an assignment between two non-empty arrays of the same shape whose
\* elements differed
C5_Witness ==
  /\ last.op = "Assign"
  /\ last.a # last.b
  /\ SameShapeBefore(last.pre, last.a, last.b)
  /\ LastIn(last.pre, last.a) >= FirstIn(last.pre, last.a)
  /\ \E i \in FirstIn(last.pre, last.a)..LastIn(last.pre, last.a) :
       ElemIn(last.pre, last.a, i) # ElemIn(last.pre, last.b, i)
  /\ data[last.a] = last.pre.data[last.a]

Owned(b) == {a \in Arrays : alive[a] /\ data[a].buf = b}

IterOps ==
  {"IterConstruct", "IterPre", "IterPost", "IterAtEnd", "IterDeref",
   "IterArrow", "IterCast"}

C8_Iterator ==
  it.live =>
    LET a == it.arr
        len == Last(a) - First(a) + 1
    IN  /\ it.idx = First(a) + it.adv
        /\ last.op = "IterConstruct" => it.idx = First(a)
        /\ last.op \in {"IterPre", "IterPost"} => it.idx = last.n + 1
        /\ last.op = "IterAtEnd" =>
             /\ last.ret = (it.idx > Last(a))
             /\ last.ret = (it.adv >= len)
        /\ last.op \in {"IterDeref", "IterArrow", "IterCast"} =>
             /\ last.status = "IndexError" <=> it.adv >= len
             /\ last.status = "ok" =>
                  /\ last.n = First(a) + it.adv
                  /\ Stored(a, last.n)
                  /\ last.ret = IF last.op = "IterDeref"
                                THEN Pointee(Elem(a, last.n))
                                ELSE Elem(a, last.n)
        /\ \A k \in 1..Len(it.seen) :
             /\ it.seen[k] \in First(a)..Last(a)
             /\ k > 1 => it.seen[k - 1] < it.seen[k]
             /\ ~it.skip => it.seen[k] = First(a) + k - 1
        /\ last.op \in IterOps => Untouched(last.pre)
        /\ heap.faults = {}

\* AtEnd() answered true after exactly Length() = 3 advances, every element
\* having been dereferenced on the way
C8_Witness ==
  /\ it.live
  /\ last.op = "IterAtEnd"
  /\ last.ret = TRUE
  /\ Last(it.arr) - First(it.arr) + 1 = 3
  /\ it.adv = 3
  /\ ~it.skip
  /\ it.seen = <<First(it.arr), First(it.arr) + 1, First(it.arr) + 2>>

(***************************************************************************)
(* C6.  For every pair of machine ints lo and hi, Construct(lo, hi) fails  *)
(* with RangeError exactly when hi < lo - 1, and for every lo <= hi + 1 it *)
(* succeeds with First() = lo, Last() = hi and Length() = hi - lo + 1.     *)
(***************************************************************************)
C6_ConstructContract ==
  /\ last.op = "Construct" =>
       /\ last.status = "RangeError" <=> last.v < last.n - 1
       /\ last.n <= last.v + 1 =>
            /\ last.status = "ok"
            /\ alive[last.a]
            /\ First(last.a) = last.n
            /\ Last(last.a) = last.v
  /\ last.op = "Length" =>
       last.ret = Last(last.a) - First(last.a) + 1

====
